---- MODULE Spec2Model ----
(***************************************************************************)
(* Model of apps/main: the entity classes of models.py (SiteSettings,      *)
(* Excursion, ExcursionImage, Review, FAQ), the image compression mixin,   *)
(* the upload path builder and the template helpers of templatetags/utils. *)
(*                                                                         *)
(* A behaviour follows the table of ONE entity class (chosen in Init): the *)
(* tables of different classes do not influence each other in the code.    *)
(***************************************************************************)
EXTENDS Integers, Sequences, FiniteSets, TLC

VARIABLES cls, db, last

vars == <<cls, db, last>>

-----------------------------------------------------------------------------
(* Bounds of the model *)

\* largest explicit primary key an editor constructs a SiteSettings with
MaxPk == 2
\* largest number of rows of a class with automatic primary keys
MaxRows == 1
\* largest integer handed to the index filter
MaxIdx == 3
\* longest list handed to the index filter
MaxLen == 2

-----------------------------------------------------------------------------
(* Program constants *)

default_max_width == 1280
default_max_height == 1280
default_quality == 70

\* self.pk of an instance constructed without an identity (None)
NonePk == -1

\* `not self.pk`: None and 0 are both falsy
Falsy(pk) == pk = NonePk \/ pk = 0

app_label == "main"

Classes == {"SiteSettings", "Excursion", "ExcursionImage", "Review", "FAQ"}

\* instance.__class__.__name__.lower()
model_name(c) ==
    CASE c = "SiteSettings" -> "sitesettings"
      [] c = "Excursion" -> "excursion"
      [] c = "ExcursionImage" -> "excursionimage"
      [] c = "Review" -> "review"
      [] c = "FAQ" -> "faq"

\* instance._meta.fields, in declaration order; kind "image" marks the
\* ImageFields, all of which are declared with upload_to=upload_to
F(n, k) == [name |-> n, kind |-> k]

MetaFields(c) ==
    CASE c = "SiteSettings" ->
           << F("id", "auto"), F("logo", "image"), F("slogan", "char"),
              F("copyright_text", "char"), F("tursab_image", "image"),
              F("address", "char"), F("address_gmap", "char"),
              F("email", "char"), F("phone", "char"), F("phone_repr", "char"),
              F("whatsapp", "char"), F("whatsapp_repr", "char"),
              F("banner_link", "char"), F("banner_image", "image") >>
      [] c = "Excursion" ->
           << F("id", "auto"), F("title", "char"), F("slug", "char"),
              F("short_description", "char"), F("content_md", "char"),
              F("is_published", "bool"), F("created_at", "date"),
              F("updated_at", "date"), F("cover", "image"),
              F("cover_head", "image") >>
      [] c = "ExcursionImage" ->
           << F("id", "auto"), F("excursion", "fk"), F("caption", "char"),
              F("sort_order", "int"), F("image", "image") >>
      [] c = "Review" ->
           << F("id", "auto"), F("photo", "image"), F("full_name", "char"),
              F("text", "char"), F("is_published", "bool"),
              F("created_at", "date") >>
      [] c = "FAQ" ->
           << F("id", "auto"), F("question", "char"), F("answer", "char"),
              F("sort_order", "int"), F("is_published", "bool") >>

\* the names of the fields of each class, of its ImageFields and of its
\* is_published flag
FieldNames ==
    [c \in Classes |-> {MetaFields(c)[i].name : i \in 1..Len(MetaFields(c))}]

ImageFields ==
    [c \in Classes |->
        {MetaFields(c)[i].name :
            i \in {j \in 1..Len(MetaFields(c)) : MetaFields(c)[j].kind = "image"}}]

FlagFields == [c \in Classes |-> FieldNames[c] \cap {"is_published"}]

\* image_compression_config of each class: the keys in dict order, and the
\* policy of each key. Review and FAQ do not use the mixin.
ConfigKeys(c) ==
    CASE c = "SiteSettings" -> << "banner" >>
      [] c = "Excursion" -> << "cover", "cover_head" >>
      [] c = "ExcursionImage" -> << "image" >>
      [] OTHER -> << >>

Config(c, k) ==
    CASE c = "SiteSettings" /\ k = "banner" ->
           [max_width |-> 1080, max_height |-> 520, quality |-> 75]
      [] c = "Excursion" /\ k \in {"cover", "cover_head"} ->
           [max_width |-> 1280, max_height |-> 1280, quality |-> 75]
      [] c = "ExcursionImage" /\ k = "image" ->
           [max_width |-> 1280, max_height |-> 1280, quality |-> 75]

SeqToSet(s) == {s[i] : i \in 1..Len(s)}

\* config.get(key, default)
DictGet(cfg, key, default) == IF key \in DOMAIN cfg THEN cfg[key] ELSE default

-----------------------------------------------------------------------------
(* Files *)

\* a file value of an ImageField: dir is the directory it was committed
\* under (<< >> before it is committed), quality 0 marks bytes that were
\* not produced by the compression
File(dir, stem, ext, w, h, mode, ok, quality, committed) ==
    [dir |-> dir, stem |-> stem, ext |-> ext, w |-> w, h |-> h,
     mode |-> mode, ok |-> ok, quality |-> quality, committed |-> committed]

\* the empty FieldFile (no name): falsy
EmptyFile == File(<< >>, "", "", 0, 0, "", FALSE, 0, TRUE)

IsEmpty(f) == f.stem = ""

\* the uploads an editor submits: a large RGBA PNG, a small RGB JPEG and a
\* file that is not an image
Upload(stem, ext, w, h, mode, ok) ==
    File(<< >>, stem, ext, w, h, mode, ok, 0, FALSE)

BigUpload == Upload("big", "png", 4000, 3000, "RGBA", TRUE)
SmallUpload == Upload("small", "jpg", 800, 600, "RGB", TRUE)
BrokenUpload == Upload("broken", "png", 0, 0, "", FALSE)

Uploads == {BigUpload, SmallUpload, BrokenUpload}

-----------------------------------------------------------------------------
(* upload_to *)

\* the loop of upload_to: the name of the first field of instance._meta.fields
\* whose upload_to is this function, None ("") when there is none
RECURSIVE FirstUploadField(_, _)
FirstUploadField(fields, i) ==
    IF i > Len(fields) THEN ""
    ELSE IF fields[i].kind = "image" THEN fields[i].name
    ELSE FirstUploadField(fields, i + 1)

\* upload_to(instance, filename): the path <app>/<model>/<field>/<filename>,
\* as the tuple of its components
upload_to(c, filename) ==
    LET found == FirstUploadField(MetaFields(c), 1)
        field_name == IF found = "" THEN "file" ELSE found
    IN << app_label, model_name(c), field_name, filename >>

\* FileField.pre_save: an uncommitted file is written to storage under the
\* directory upload_to gives for it
Commit(c, f) ==
    IF IsEmpty(f) \/ f.committed THEN f
    ELSE LET path == upload_to(c, << f.stem, f.ext >>)
         IN [f EXCEPT !.dir = << path[1], path[2], path[3] >>,
                      !.committed = TRUE]

-----------------------------------------------------------------------------
(* Image compression *)

Abs(n) == IF n < 0 THEN -n ELSE n
Max2(a, b) == IF a > b THEN a ELSE b

\* Image.thumbnail((x, y)) of Pillow on an image of w x h: the size of the
\* result. The float quotients of the library are computed exactly here:
\* floor and ceil of the scaled side, the one whose ratio is nearer to the
\* aspect w/h wins (floor on a tie), never less than 1.
Thumbnail(w, h, x, y) ==
    IF x >= w /\ y >= h THEN << w, h >>
    ELSE IF x * h >= w * y
    THEN \* x / y >= aspect: the height decides
         LET lo == (y * w) \div h
             hi == IF (y * w) % h = 0 THEN lo ELSE lo + 1
             pick == IF Abs(w * y - lo * h) <= Abs(w * y - hi * h)
                     THEN lo ELSE hi
         IN << Max2(pick, 1), y >>
    ELSE LET lo == (x * h) \div w
             hi == IF (x * h) % w = 0 THEN lo ELSE lo + 1
             pick == IF lo = 0 THEN lo
                     ELSE IF Abs(w * lo - x * h) * hi <= Abs(w * hi - x * h) * lo
                     THEN lo ELSE hi
         IN << x, Max2(pick, 1) >>

\* the result of a call: exc "" when it returned normally
Outcome(d, inst, exc, log) == [db |-> d, inst |-> inst, exc |-> exc, log |-> log]

Ev(kind, fields) == [ev |-> kind, fields |-> fields]

\* _compress_image_field(self, field_name, config) on the instance inst
\* (a record with pk, files, flags): <<instance after the call, exception>>
compress_image_field(inst, field_name, config) ==
    LET has == field_name \in DOMAIN inst.files
        field == IF has THEN inst.files[field_name] ELSE EmptyFile
    IN IF IsEmpty(field) THEN << inst, "" >>
       ELSE IF ~field.ok THEN << inst, "UnidentifiedImageError" >>
       ELSE LET max_width == DictGet(config, "max_width", default_max_width)
                max_height == DictGet(config, "max_height", default_max_height)
                quality == DictGet(config, "quality", default_quality)
                size == Thumbnail(field.w, field.h, max_width, max_height)
                compressed_file ==
                    File(<< >>, field.stem, "jpg", size[1], size[2], "RGB",
                         TRUE, quality, FALSE)
            IN << [inst EXCEPT !.files[field_name] = compressed_file], "" >>

\* compress_images(self): the loop over image_compression_config.items(),
\* from key i on; the first exception ends it
RECURSIVE compress_images(_, _, _, _)
compress_images(c, inst, i, log) ==
    IF i > Len(ConfigKeys(c)) THEN Outcome(<< >>, inst, "", log)
    ELSE LET k == ConfigKeys(c)[i]
             r == compress_image_field(inst, k, Config(c, k))
             log2 == Append(log, Ev("compress", {k}))
         IN IF r[2] # "" THEN Outcome(<< >>, r[1], r[2], log2)
            ELSE compress_images(c, r[1], i + 1, log2)

-----------------------------------------------------------------------------
(* Model.save and the save methods of the classes *)

\* update_fields: None (all fields) or a list of field names
UF(all, names) == [all |-> all, names |-> names]
AllFields == UF(TRUE, {})

NextPk(d) ==
    IF DOMAIN d = {} THEN 1
    ELSE 1 + CHOOSE m \in DOMAIN d : \A n \in DOMAIN d : n <= m

BlankRow(c) ==
    [files |-> [f \in ImageFields[c] |-> EmptyFile],
     flags |-> [f \in FlagFields[c] |-> TRUE]]

\* django.db.models.Model.save(update_fields=uf): one write of the row.
\* An empty update_fields list is a no-op, an unknown field name a
\* ValueError; the files of the written fields are committed to storage.
ModelSave(c, d, inst, uf, log) ==
    IF ~uf.all /\ uf.names = {} THEN Outcome(d, inst, "", log)
    ELSE IF ~uf.all /\ ~(uf.names \subseteq FieldNames[c])
    THEN Outcome(d, inst, "ValueError", log)
    ELSE IF ~uf.all /\ inst.pk \notin DOMAIN d
    THEN Outcome(d, inst, "DatabaseError", log)
    ELSE
      LET written == IF uf.all THEN FieldNames[c] ELSE uf.names
          pk == IF inst.pk = NonePk THEN NextPk(d) ELSE inst.pk
          files == [f \in ImageFields[c] |->
                      IF f \in written THEN Commit(c, inst.files[f])
                      ELSE inst.files[f]]
          saved == [inst EXCEPT !.pk = pk, !.files = files]
          old == IF pk \in DOMAIN d THEN d[pk] ELSE BlankRow(c)
          row == [files |-> [f \in ImageFields[c] |->
                               IF f \in written THEN files[f]
                               ELSE old.files[f]],
                  flags |-> [f \in FlagFields[c] |->
                               IF f \in written THEN inst.flags[f]
                               ELSE old.flags[f]]]
      IN Outcome((pk :> row) @@ d, saved, "",
                 Append(log, Ev("write", IF uf.all THEN {"*"} ELSE uf.names)))

\* the bases of each class statement, in the order written
Bases(c) ==
    CASE c = "SiteSettings" -> << "Model", "ImageCompressionMixin" >>
      [] c = "Excursion" -> << "ImageCompressionMixin", "Model" >>
      [] c = "ExcursionImage" -> << "ImageCompressionMixin", "Model" >>
      [] OTHER -> << "Model" >>

\* the method resolution order (object, which defines no save, left out)
MRO(c) == << c >> \o Bases(c)

\* the attributes each class body defines (the methods and the class
\* attributes; of Model, the part of its interface the code uses)
ClassAttrs(k) ==
    CASE k = "SiteSettings" ->
           {"save", "load", "__str__", "image_compression_config"}
             \cup FieldNames["SiteSettings"]
      [] k = "ImageCompressionMixin" ->
           {"save", "compress_images", "_compress_image_field",
            "image_compression_config", "default_max_width",
            "default_max_height", "default_quality"}
      [] k = "Model" -> {"save", "delete", "objects", "pk", "_meta"}
      [] OTHER -> {}

RECURSIVE SaveAt(_, _, _, _, _, _)

\* SiteSettings.save without the objects.exists() check
SiteSettings_save_unchecked(c, i, d, inst, uf, log) ==
    IF Falsy(inst.pk)
    THEN SaveAt(c, i + 1, d, [inst EXCEPT !.pk = 1], uf, log)
    ELSE SaveAt(c, i + 1, d, inst, uf, log)

\* SiteSettings.save; super() is the class after position i of the MRO
SiteSettings_save(c, i, d, inst, uf, log) ==
    IF Falsy(inst.pk)
    THEN IF DOMAIN d # {}
         THEN Outcome(d, inst, "ValidationError", log)
         ELSE SaveAt(c, i + 1, d, [inst EXCEPT !.pk = 1], uf, log)
    ELSE SaveAt(c, i + 1, d, inst, uf, log)

\* ImageCompressionMixin.save with the second write in a finally block
Mixin_save_writes_anyway(c, i, d, inst, uf, log) ==
    LET first == SaveAt(c, i + 1, d, inst, uf, log)
    IN IF first.exc # "" THEN first
       ELSE LET done == compress_images(c, first.inst, 1, first.log)
                second == SaveAt(c, i + 1, first.db, done.inst,
                                 UF(FALSE, SeqToSet(ConfigKeys(c))), done.log)
            IN IF done.exc # ""
               THEN Outcome(second.db, second.inst, done.exc, second.log)
               ELSE second

\* ImageCompressionMixin.save
Mixin_save(c, i, d, inst, uf, log) ==
    LET first == SaveAt(c, i + 1, d, inst, uf, log)
    IN IF first.exc # "" THEN first
       ELSE LET done == compress_images(c, first.inst, 1, first.log)
            IN IF done.exc # ""
               THEN Outcome(first.db, done.inst, done.exc, done.log)
               ELSE SaveAt(c, i + 1, first.db, done.inst,
                           UF(FALSE, SeqToSet(ConfigKeys(c))), done.log)

\* the save method found from position i of the MRO of class c on
SaveAt(c, i, d, inst, uf, log) ==
    IF i > Len(MRO(c)) THEN Outcome(d, inst, "AttributeError", log)
    ELSE LET k == MRO(c)[i]
         IN IF "save" \notin ClassAttrs(k)
            THEN SaveAt(c, i + 1, d, inst, uf, log)
            ELSE CASE k = "SiteSettings" ->
                        SiteSettings_save(c, i, d, inst, uf, log)
                   [] k = "ImageCompressionMixin" ->
                        Mixin_save(c, i, d, inst, uf, log)
                   [] k = "Model" -> ModelSave(c, d, inst, uf, log)

\* instance.save()
save(c, d, inst) == SaveAt(c, 1, d, inst, AllFields, << >>)

\* an instance constructed without arguments
NoInstance(c) ==
    [pk |-> NonePk, files |-> BlankRow(c).files, flags |-> BlankRow(c).flags]

\* the instance read from row pk of the table
FromRow(d, pk) == [pk |-> pk, files |-> d[pk].files, flags |-> d[pk].flags]

\* load() as objects.get_or_create() without the fixed pk: any stored row
load_any(d) ==
    IF DOMAIN d # {}
    THEN Outcome(d, FromRow(d, CHOOSE pk \in DOMAIN d : TRUE), "", << >>)
    ELSE save("SiteSettings", d, NoInstance("SiteSettings"))

\* SiteSettings.load(): objects.get_or_create(pk=1)
load(d) ==
    IF 1 \in DOMAIN d THEN Outcome(d, FromRow(d, 1), "", << >>)
    ELSE save("SiteSettings", d, [NoInstance("SiteSettings") EXCEPT !.pk = 1])

\* getattr(cls, name) succeeds when a class of the MRO defines name
HasAttr(c, name) == \E i \in 1..Len(MRO(c)) : name \in ClassAttrs(MRO(c)[i])

-----------------------------------------------------------------------------
(* Template helpers *)

\* the primary keys of S in ascending (descending) order
RECURSIVE Ordered(_, _)
Ordered(S, desc) ==
    IF S = {} THEN << >>
    ELSE LET m == CHOOSE x \in S :
                    \A y \in S : IF desc THEN y <= x ELSE x <= y
         IN << m >> \o Ordered(S \ {m}, desc)

\* <Model>.objects.all(): every row of the table, in Meta.ordering
\* ("-created_at" is the reverse of the creation order, "sort_order, id"
\* the order of the ids while sort_order keeps its default)
objects_all(c, d) == Ordered(DOMAIN d, c \in {"Excursion", "Review"})

\* a list helper that filters on the flag: objects.filter(is_published=True)
get_list_published(c, d) ==
    Ordered({pk \in DOMAIN d : d[pk].flags["is_published"]},
            c \in {"Excursion", "Review"})

\* get_excursion_list, get_review_list, get_faq_list
get_list(c, d) == objects_all(c, d)

\* get_site_settings(): models.SiteSettings.get_solo()
get_site_settings(d) ==
    IF HasAttr("SiteSettings", "get_solo")
    THEN load(d)
    ELSE Outcome(d, NoInstance("SiteSettings"), "AttributeError", << >>)

-----------------------------------------------------------------------------
(* The index template filter *)

\* the values a template hands to the filter as i: an integer, a string
\* (the sequence of its characters) or None
IntVal(n) == [t |-> "int", n |-> n, s |-> << >>]
StrVal(s) == [t |-> "str", n |-> 0, s |-> s]
NoneVal == [t |-> "none", n |-> 0, s |-> << >>]

Digit(ch) ==
    CASE ch = "0" -> 0 [] ch = "1" -> 1 [] ch = "2" -> 2 [] ch = "3" -> 3
      [] ch = "4" -> 4 [] ch = "5" -> 5 [] ch = "6" -> 6 [] ch = "7" -> 7
      [] ch = "8" -> 8 [] ch = "9" -> 9 [] OTHER -> -1

\* the value of a string of decimal digits after the prefix acc, -1 when a
\* character is no digit
RECURSIVE DigitsValue(_, _)
DigitsValue(s, acc) ==
    IF s = << >> THEN acc
    ELSE IF Digit(Head(s)) < 0 THEN -1
    ELSE DigitsValue(Tail(s), 10 * acc + Digit(Head(s)))

Returned(v) == [kind |-> "return", exc |-> "", val |-> v]
Raised(e) == [kind |-> "raise", exc |-> e, val |-> << >>]

\* int(i): an integer is itself, a string is parsed as an optional sign and
\* decimal digits (ValueError otherwise), None is a TypeError
int(i) ==
    CASE i.t = "int" -> Returned(i.n)
      [] i.t = "none" -> Raised("TypeError")
      [] i.t = "str" ->
           LET signed == i.s # << >> /\ Head(i.s) \in {"-", "+"}
               digits == IF signed THEN Tail(i.s) ELSE i.s
               value == DigitsValue(digits, 0)
           IN IF digits = << >> \/ value < 0 THEN Raised("ValueError")
              ELSE IF signed /\ Head(i.s) = "-" THEN Returned(-value)
              ELSE Returned(value)

\* list_obj[k] of a Python list: indices from 0, negative ones from the end
GetItem(list_obj, k) ==
    LET n == Len(list_obj)
    IN IF k >= n \/ k < -n THEN Raised("IndexError")
       ELSE IF k >= 0 THEN Returned(list_obj[k + 1])
       ELSE Returned(list_obj[n + k + 1])

\* the try block of index: return list_obj[int(i)]
index_try(list_obj, i) ==
    LET k == int(i)
    IN IF k.kind = "raise" THEN k ELSE GetItem(list_obj, k.val)

\* a finally block without a return statement
index_finally_pass == [kind |-> "fallthrough", exc |-> "", val |-> ""]

\* the finally block of index: return ""
index_finally == Returned("")

\* try/finally: a return in the finally block replaces the outcome of the
\* try block, a pending exception included
TryFinally(body, final) == IF final.kind = "return" THEN final ELSE body

\* index(list_obj, i)
index(list_obj, i) == TryFinally(index_try(list_obj, i), index_finally)

-----------------------------------------------------------------------------
(* The state machine *)

Last(op, argPk, exc, retPk, retList, log) ==
    [op |-> op, again |-> (last.op = op), argPk |-> argPk, exc |-> exc,
     retPk |-> retPk, retList |-> retList, log |-> log]

ListClasses == {"Excursion", "Review", "FAQ"}

\* the identities an instance handed to save() can carry
PkChoices ==
    IF cls = "SiteSettings" THEN {NonePk} \cup 0..MaxPk
    ELSE {pk \in {NonePk} : Cardinality(DOMAIN db) < MaxRows} \cup DOMAIN db

\* the files an editor submits for field f of the class followed
FieldUploads(f) ==
    CASE f \in {"banner_image", "image"} -> Uploads
      [] f \in {"cover", "cover_head"} -> {BigUpload, BrokenUpload}
      [] f = "photo" -> {SmallUpload}
      [] OTHER -> {}

Init ==
    /\ cls \in Classes
    /\ db = << >>
    /\ last = [op |-> "init", again |-> FALSE, argPk |-> NonePk, exc |-> "",
               retPk |-> NonePk, retList |-> << >>, log |-> << >>]

\* an editor (or any caller) saves an instance: a new one, or the stored one
\* with some of its fields replaced
Save ==
    \E pk \in PkChoices :
      LET base == IF pk \in DOMAIN db THEN db[pk] ELSE BlankRow(cls)
          offered == [f \in ImageFields[cls] |->
                        {base.files[f], EmptyFile} \cup FieldUploads(f)]
      IN \E files \in [ImageFields[cls] -> UNION {offered[f] : f \in ImageFields[cls]}],
            flags \in [FlagFields[cls] -> BOOLEAN] :
           /\ \A f \in ImageFields[cls] : files[f] \in offered[f]
           /\ \E r \in {save(cls, db, [pk |-> pk, files |-> files, flags |-> flags])} :
                 /\ db' = r.db
                 /\ last' = Last("save", pk, r.exc, r.inst.pk, << >>, r.log)
           /\ UNCHANGED cls

Load ==
    /\ cls = "SiteSettings"
    /\ \E r \in {load(db)} :
          /\ db' = r.db
          /\ last' = Last("load", NonePk, r.exc, r.inst.pk, << >>, r.log)
    /\ UNCHANGED cls

GetSiteSettings ==
    /\ cls = "SiteSettings"
    /\ \E r \in {get_site_settings(db)} :
          /\ db' = r.db
          /\ last' = Last("get_site_settings", NonePk, r.exc, r.inst.pk,
                          << >>, r.log)
    /\ UNCHANGED cls

GetList ==
    /\ cls \in ListClasses
    /\ last' = Last("get_list", NonePk, "", NonePk, get_list(cls, db), << >>)
    /\ UNCHANGED <<cls, db>>

Next == Save \/ Load \/ GetSiteSettings \/ GetList

Spec == Init /\ [][Next]_vars

-----------------------------------------------------------------------------
(* The index filter applied to the values a template can hand it *)

Elements == {"a", "b"}

Lists == UNION {[1..n -> Elements] : n \in 0..MaxLen}

TemplateValues ==
    {IntVal(n) : n \in -MaxIdx..MaxIdx}
      \cup {StrVal(s) : s \in {<< >>, <<"0">>, <<"1">>, <<"-", "1">>,
                               <<"+", "1">>, <<"1", "0">>, <<"x">>,
                               <<"1", "x">>, <<"-">>}}
      \cup {NoneVal}

InitIndex ==
    /\ cls = "Review"
    /\ db = << >>
    /\ last = [op |-> "init", list_obj |-> << >>, i |-> NoneVal,
               tried |-> Returned(""), result |-> Returned("")]

Index ==
    /\ \E list_obj \in Lists, i \in TemplateValues :
         last' = [op |-> "index", list_obj |-> list_obj, i |-> i,
                  tried |-> index_try(list_obj, i),
                  result |-> index(list_obj, i)]
    /\ UNCHANGED <<cls, db>>

NextIndex == Index

SpecIndex == InitIndex /\ [][NextIndex]_vars

-----------------------------------------------------------------------------
(* Properties *)

PolicyClasses == {c \in Classes : ConfigKeys(c) # << >>}

Settings == cls = "SiteSettings"

\* the stored row the last save wrote
SavedRow == db[last.retPk]

Writes(log) == {i \in 1..Len(log) : log[i].ev = "write"}

\* C1: whatever SiteSettings operations ran (load, save without an identity,
\* save with an explicit identity), the table holds at most one row.
C1_AtMostOneRow == Settings => Cardinality(DOMAIN db) <= 1

\* C2: load() returns the record with identity 1 without raising, creates
\* it (and nothing else) when the table is empty, writes nothing when row 1
\* exists, and a load() that follows a load() returns the same identity and
\* leaves the table as it was.
C2_LoadFixedIdentity ==
    [][last'.op = "load" =>
         /\ last'.exc = ""
         /\ last'.retPk = 1
         /\ 1 \in DOMAIN db'
         /\ (DOMAIN db = {} => DOMAIN db' = {1})
         /\ (1 \in DOMAIN db => db' = db /\ last'.log = << >>)
         /\ (last.op = "load" =>
               db' = db /\ last'.retPk = last.retPk /\ last'.log = << >>)]_vars

\* a second load() in a row returned identity 1 and wrote nothing
C2_Witness ==
    /\ last.op = "load" /\ last.again
    /\ last.retPk = 1 /\ last.log = << >> /\ DOMAIN db = {1}

\* C3: when a SiteSettings row exists, save() of an instance without an
\* identity raises ValidationError, writes nothing and leaves the table (so
\* the existing record) exactly as it was.
C3_SecondCreationRejected ==
    [][(Settings /\ last'.op = "save" /\ Falsy(last'.argPk) /\ DOMAIN db # {}) =>
         /\ last'.exc = "ValidationError"
         /\ last'.log = << >>
         /\ db' = db]_vars

\* a save() without identity was rejected while a record with a banner
\* image was stored
C3_Witness ==
    /\ Settings /\ last.op = "save" /\ last.argPk = NonePk
    /\ last.exc = "ValidationError"
    /\ \E pk \in DOMAIN db : ~IsEmpty(db[pk].files["banner_image"])

\* the events of a save as C4 describes it: the raw write, one compression
\* per policy key, the write restricted to the policy keys
HookLog(c) ==
    << Ev("write", {"*"}) >>
      \o [i \in 1..Len(ConfigKeys(c)) |-> Ev("compress", {ConfigKeys(c)[i]})]
      \o << Ev("write", SeqToSet(ConfigKeys(c))) >>

\* the image field a policy key is declared for: the key is the field name,
\* except that SiteSettings names the policy of banner_image "banner"
PolicyField(c, k) ==
    IF c = "SiteSettings" /\ k = "banner" THEN "banner_image" ELSE k

PolicyFields(c) == {PolicyField(c, k) : k \in SeqToSet(ConfigKeys(c))}

\* C4: every save() of a class with a policy map that returns normally did
\* the raw write, one compression per policy key and the restricted second
\* write, and each non-empty policy field of the stored row holds a
\* compressed payload.
C4_SaveCompresses ==
    (cls \in PolicyClasses /\ last.op = "save" /\ last.exc = "") =>
        /\ last.log = HookLog(cls)
        /\ \A f \in PolicyFields(cls) :
             ~IsEmpty(SavedRow.files[f]) => SavedRow.files[f].quality > 0

\* C5: when save() ends with the decoding error, the only write it made is
\* the first (raw) one, nothing follows the failed compression, the file
\* that could not be decoded is stored, and every stored field of the row
\* is either a raw payload or what was stored before the call.
C5_DecodeErrorKeepsRaw ==
    [][(last'.op = "save" /\ last'.exc = "UnidentifiedImageError") =>
         LET pk == last'.retPk
             log == last'.log
         IN /\ Writes(log) = {1}
            /\ log[Len(log)].ev = "compress"
            /\ pk \in DOMAIN db'
            /\ \E f \in ImageFields[cls] :
                 ~IsEmpty(db'[pk].files[f]) /\ ~db'[pk].files[f].ok
            /\ \A f \in ImageFields[cls] :
                 \/ db'[pk].files[f].quality = 0
                 \/ (pk \in DOMAIN db /\ db'[pk].files[f] = db[pk].files[f])]_vars

\* an Excursion save whose cover was compressed in memory before the
\* decoding of cover_head failed: the stored cover is the raw 4000x3000 upload
C5_Witness ==
    /\ cls = "Excursion" /\ last.op = "save"
    /\ last.exc = "UnidentifiedImageError"
    /\ last.log = << Ev("write", {"*"}), Ev("compress", {"cover"}),
                     Ev("compress", {"cover_head"}) >>
    /\ SavedRow.files["cover"].quality = 0
    /\ SavedRow.files["cover"].w = 4000
    /\ ~SavedRow.files["cover_head"].ok

\* the upload a stored file came from
Original(f) == CHOOSE u \in Uploads : u.stem = f.stem

\* C6: after a successful save, every non-empty image field with a
\* configured policy is stored within the policy's box (1280x1280 where
\* the policy omits a maximum) and not larger than the upload, with the
\* upload's aspect ratio up to rounding.
C6_WithinBox ==
    (cls \in PolicyClasses /\ last.op = "save" /\ last.exc = "") =>
        \A k \in SeqToSet(ConfigKeys(cls)) :
          LET f == SavedRow.files[PolicyField(cls, k)]
              u == Original(f)
              max_width == DictGet(Config(cls, k), "max_width", default_max_width)
              max_height == DictGet(Config(cls, k), "max_height", default_max_height)
          IN ~IsEmpty(f) =>
               /\ f.w <= max_width /\ f.h <= max_height
               /\ f.w <= u.w /\ f.h <= u.h
               /\ ((u.w <= max_width /\ u.h <= max_height) =>
                     f.w = u.w /\ f.h = u.h)
               /\ Abs(f.w * u.h - f.h * u.w) <= Max2(u.w, u.h)

\* C7: every stored file lies under <app>/<model>/<name of the field that
\* received it>.
C7_PathNamesField ==
    \A pk \in DOMAIN db : \A f \in ImageFields[cls] :
        ~IsEmpty(db[pk].files[f]) =>
            db[pk].files[f].dir = << app_label, model_name(cls), f >>

\* C8: get_site_settings() returns, without raising, the record load()
\* returns: the stored row with identity 1.
C8_ReturnsSingleton ==
    last.op = "get_site_settings" =>
        last.exc = "" /\ last.retPk = 1 /\ 1 \in DOMAIN db

Listed == SeqToSet(last.retList)

\* C9 as claimed: the list helpers return no entity whose is_published
\* flag is false.
C9_OnlyPublished ==
    last.op = "get_list" => \A pk \in Listed : db[pk].flags["is_published"]

\* C9 as amended: each list helper returns every stored entity of its
\* class exactly once, whatever its is_published flag.
C9_ListsEveryRow ==
    last.op = "get_list" =>
        Listed = DOMAIN db /\ Len(last.retList) = Cardinality(DOMAIN db)

\* a list helper returned an unpublished entity
C9_Witness ==
    /\ last.op = "get_list"
    /\ \E pk \in Listed : ~db[pk].flags["is_published"]

\* C10: index(list_obj, i) returns "" for every input: a successful lookup
\* is discarded and an exception of int(i) or of the lookup never escapes.
C10_IndexAlwaysEmpty ==
    last.op = "index" => last.result.kind = "return" /\ last.result.val = ""

\* index was applied to the string "-1" and a list ending in "b": the lookup
\* found "b" and the filter returned ""
C10_Witness ==
    /\ last.op = "index"
    /\ last.i = StrVal(<<"-", "1">>)
    /\ last.tried.kind = "return"
    /\ last.tried.val = "b"
    /\ last.result.kind = "return"
    /\ last.result.val = ""

====
